---- MODULE Spec2Model ----
(***************************************************************************)
(* Model of the sigrok Morse protocol decoder (src/pd.py).                 *)
(*                                                                         *)
(* The decoder is three nested generators driven by the host's wait():     *)
(*   decode_symbols  edges/timeouts -> classified symbols and flushes      *)
(*   decode_morse    symbols        -> letters and pass-through flushes    *)
(*   decode          letters        -> letter and word annotations        *)
(* The generators run on one thread; everything that happens between two   *)
(* returns of wait() is one atomic step of the model.                      *)
(*                                                                         *)
(* Representation.                                                         *)
(*  - Time is counted in samples.  The sample rate is the default the code *)
(*    falls back to (1.0), so dt in seconds equals the sample distance.    *)
(*  - timeunit is a Python float; the model holds it as an exact reduced   *)
(*    fraction [num, den], and 0.02 as 1/50.  One adapt step multiplies    *)
(*    the denominator by at most 50, so MaxAdapt bounds the inexact        *)
(*    intervals of a run (numbers stay below 2^31).                        *)
(*  - A Python str is a sequence of one-character strings; a character     *)
(*    outside ASCII is written "U+XXXX".                                   *)
(*  - None is the number -1 where the code holds a sample number or None.  *)
(*  - trace is the history of everything the three stages yield, put or    *)
(*    raise, in program order.                                             *)
(***************************************************************************)
EXTENDS Integers, Sequences, FiniteSets, TLC

\* ------------------------------------------------------------------ bounds
\* Last sample number a run may reach.
MaxTime == 16
\* Largest power of 50 the denominator of timeunit may reach.
MaxAdapt == 3
\* The first rising edge falls on one of the samples 1..MaxFirst.
MaxFirst == 1
\* Longest tuple over {1,3} handed to the resolution of a letter on its own.
MaxCodeLen == 8
\* Timeouts of trailing silence after the scripted "hello" stream.
MaxTrail == 3

\* ------------------------------------------------------------ arithmetic
None == -1

RECURSIVE GCD(_, _)
GCD(a, b) == IF b = 0 THEN a ELSE GCD(b, a % b)

Abs(a) == IF a < 0 THEN -a ELSE a

\* The fraction n/d (d > 0) in lowest terms.
Frac(n, d) ==
    LET g == GCD(Abs(n), d)
    IN  [num |-> n \div g, den |-> d \div g]

RECURSIVE Pow50(_)
Pow50(k) == IF k = 0 THEN 1 ELSE 50 * Pow50(k - 1)

\* Python 3 round() of the quotient n/d (d > 0): nearest integer, ties to even.
py_round(n, d) ==
    LET q == n \div d
        r == n % d
    IN  IF 2 * r < d THEN q
        ELSE IF 2 * r > d THEN q + 1
        ELSE IF q % 2 = 0 THEN q ELSE q + 1

\* Python int() of the quotient n/d (n >= 0, d > 0): truncation.
py_int(n, d) == n \div d

\* ------------------------------------------------- dit/dah and alphabet
RECURSIVE decode_ditdah(_)
decode_ditdah(s) ==
    IF s = <<>> THEN <<>>
    ELSE <<CASE Head(s) = "-" -> 3 [] Head(s) = "." -> 1>> \o decode_ditdah(Tail(s))

\* Mutant of encode_ditdah: the two signs are exchanged.
RECURSIVE encode_ditdah_swapped(_)
encode_ditdah_swapped(tpl) ==
    IF tpl = <<>> THEN <<>>
    ELSE <<CASE Head(tpl) = 1 -> "-" [] Head(tpl) = 3 -> ".">> \o encode_ditdah_swapped(Tail(tpl))

RECURSIVE encode_ditdah(_)
encode_ditdah(tpl) ==
    IF tpl = <<>> THEN <<>>
    ELSE <<CASE Head(tpl) = 1 -> "." [] Head(tpl) = 3 -> "-">> \o encode_ditdah(Tail(tpl))

\* The dict literal of lines 36-102, entry by entry: <<key, value>>.
alphabet_literal == <<
    <<<<".","-">>,                           <<"a">>>>,
    <<<<"-",".",".",".">>,                   <<"b">>>>,
    <<<<"-",".","-",".">>,                   <<"c">>>>,
    <<<<"-",".",".">>,                       <<"d">>>>,
    <<<<".">>,                               <<"e">>>>,
    <<<<".",".","-",".",".">>,               <<"U+00E9">>>>,
    <<<<".",".","-",".">>,                   <<"f">>>>,
    <<<<"-","-",".">>,                       <<"g">>>>,
    <<<<".",".",".",".">>,                   <<"h">>>>,
    <<<<".",".">>,                           <<"i">>>>,
    <<<<".","-","-","-">>,                   <<"j">>>>,
    <<<<"-",".","-">>,                       <<"k">>>>,
    <<<<".","-",".",".">>,                   <<"l">>>>,
    <<<<"-","-">>,                           <<"m">>>>,
    <<<<"-",".">>,                           <<"n">>>>,
    <<<<"-","-","-">>,                       <<"o">>>>,
    <<<<".","-","-",".">>,                   <<"p">>>>,
    <<<<"-","-",".","-">>,                   <<"q">>>>,
    <<<<".","-",".">>,                       <<"r">>>>,
    <<<<".",".",".">>,                       <<"s">>>>,
    <<<<"-">>,                               <<"t">>>>,
    <<<<".",".","-">>,                       <<"u">>>>,
    <<<<".",".",".","-">>,                   <<"v">>>>,
    <<<<".","-","-">>,                       <<"w">>>>,
    <<<<"-",".",".","-">>,                   <<"x">>>>,
    <<<<"-",".","-","-">>,                   <<"y">>>>,
    <<<<"-","-",".",".">>,                   <<"z">>>>,
    <<<<".","-","-","-","-">>,               <<"1">>>>,
    <<<<".",".","-","-","-">>,               <<"2">>>>,
    <<<<".",".",".","-","-">>,               <<"3">>>>,
    <<<<".",".",".",".","-">>,               <<"4">>>>,
    <<<<".",".",".",".",".">>,               <<"5">>>>,
    <<<<"-",".",".",".",".">>,               <<"6">>>>,
    <<<<"-","-",".",".",".">>,               <<"7">>>>,
    <<<<"-","-","-",".",".">>,               <<"8">>>>,
    <<<<"-","-","-","-",".">>,               <<"9">>>>,
    <<<<"-","-","-","-","-">>,               <<"0">>>>,
    <<<<".","-",".","-",".","-">>,           <<".">>>>,
    <<<<"-","-",".",".","-","-">>,           <<",">>>>,
    <<<<"-","-","-",".",".",".">>,           <<":">>>>,
    <<<<".",".","-","-",".",".">>,           <<"?">>>>,
    <<<<".","-","-","-","-",".">>,           <<"U+2019">>>>,
    <<<<"-",".",".",".",".","-">>,           <<"-">>>>,
    <<<<"-",".",".","-",".">>,               <<"/">>>>,
    <<<<"-",".","-","-",".">>,               <<"(">>>>,
    <<<<"-",".","-","-",".","-">>,           <<")">>>>,
    <<<<".","-",".",".","-",".">>,           <<"U+201C"," ","U+201D">>>>,
    <<<<"-",".",".",".","-">>,               <<"=">>>>,
    <<<<".",".",".","-",".">>,               <<"U","N","D","E","R","S","T","O","O","D">>>>,
    <<<<".",".",".",".",".",".",".",".">>,   <<"E","R","R","O","R">>>>,
    <<<<".","-",".","-",".">>,               <<"+">>>>,
    <<<<".","-",".",".",".">>,               <<"W","A","I","T">>>>,
    <<<<".",".",".","-",".","-">>,           <<"E","O","W">>>>,
    <<<<"-",".","-",".","-">>,               <<"S","T","A","R","T">>>>,
    <<<<".","-","-",".","-",".">>,           <<"@">>>>
>>

\* alphabet = { decode_ditdah(k): v for k,v in alphabet.items() }: the keys.
alphabet_keys == {decode_ditdah(alphabet_literal[i][1]) : i \in DOMAIN alphabet_literal}

\* The value the rebuilt dict holds for key k (a later entry replaces an
\* earlier one with the same key).
alphabet_at(k) ==
    LET hits == {i \in DOMAIN alphabet_literal : decode_ditdah(alphabet_literal[i][1]) = k}
        last == CHOOSE i \in hits : \A j \in hits : j <= i
    IN  alphabet_literal[last][2]

\* Mutant of resolve: the table is not consulted.
resolve_no_lookup(seq) == encode_ditdah(seq)

\* alphabet.get(sequence, encode_ditdah(sequence)); Python evaluates the
\* default before the lookup.
resolve(seq) ==
    LET fallback == encode_ditdah(seq)
    IN  IF seq \in alphabet_keys THEN alphabet_at(seq) ELSE fallback

\* The keys without the word gap.
symbols_no_word_gap == {<<1, 1>>, <<1, 3>>, <<0, 1>>, <<0, 3>>}

\* The keys of the dict symbols: (level, time units).
symbols == {<<1, 1>>, <<1, 3>>, <<0, 1>>, <<0, 3>>, <<0, 7>>}

\* ------------------------------------------------------------------ state
VARIABLES
    phase,      \* "init": decode() not yet past line 166; "run": in the loop
                \* of decode_symbols, blocked in wait(); "failed": an
                \* exception left decode()
    option,     \* self.options['timeunit'], in samples (sample rate 1.0)
    timeunit,   \* decode_symbols' local timeunit, a fraction [num, den]
    samplenum,  \* self.samplenum
    val,        \* level of the channel at samplenum
    lastedge,   \* sample of the channel's last change of level (None before
                \* the first rising edge); the decoder does not hold it
    matched,    \* self.matched of the last wait(): <<edge, skip>>
    prevtime,   \* decode_symbols' local prevtime
    sequence,   \* decode_morse's local sequence
    morse_s0,   \* decode_morse's local s0
    morse_s1,   \* decode_morse's local s1
    word,       \* decode's local word
    word_s0,    \* decode's local s0
    word_s1,    \* decode's local s1
    trace,      \* history: every yield, put and raise, in program order
    tpl,        \* input of a resolution checked on its own
    out         \* its result (<<>> before it ran)

vars == <<phase, option, timeunit, samplenum, val, lastedge, matched, prevtime,
          sequence, morse_s0, morse_s1, word, word_s0, word_s1, trace,
          tpl, out>>

pipeline == <<phase, option, timeunit, samplenum, val, lastedge, matched, prevtime,
              sequence, morse_s0, morse_s1, word, word_s0, word_s1, trace>>

\* self.samplerate when the host gave none (lines 163-164).
samplerate == 1

\* Configured time units a run starts from, in samples.
TimeunitOptions == {0, 1, 2}

\* One entry of trace.  ev: "sym" / "flush" (yielded by decode_symbols),
\* "letter" / "wflush" (yielded by decode_morse), "put" (self.put on out_ann),
\* "raise" (ZeroDivisionError; cls is the source line).
Ev(ev, ss, es, cls, txt) == [ev |-> ev, ss |-> ss, es |-> es, cls |-> cls, txt |-> txt]

\* The grouping stages' state, threaded through one step.
Groups == [sequence |-> sequence, morse_s0 |-> morse_s0, morse_s1 |-> morse_s1,
           word |-> word, word_s0 |-> word_s0, word_s1 |-> word_s1, trace |-> trace]

Log(g, e) == [g EXCEPT !.trace = Append(@, e)]

\* self.put(ss, es, self.out_ann, [cls, [txt]])
put(g, ss, es, cls, txt) == Log(g, Ev("put", ss, es, cls, txt))

\* ---------------------------------------------------------------- decode
\* Mutant of decode_letter: the letter replaces the word in progress.
decode_letter_replaces_word(g, t0, t1, letter) ==
    LET g1 == put(g, t0, t1, 3, letter)
    IN  [g1 EXCEPT !.word_s0 = IF @ = None THEN t0 ELSE @,
                   !.word_s1 = t1,
                   !.word = letter]

\* One pass of decode's loop for a letter <<t0, t1, letter>> (lines 236-242).
decode_letter(g, t0, t1, letter) ==
    LET g1 == put(g, t0, t1, 3, letter)
    IN  [g1 EXCEPT !.word_s0 = IF @ = None THEN t0 ELSE @,
                   !.word_s1 = t1,
                   !.word = @ \o letter]

\* Mutant of decode_flush: the word's span is not reset with the word.
decode_flush_keeps_span(g) ==
    IF g.word # <<>>
    THEN [put(g, g.word_s0, g.word_s1, 4, g.word) EXCEPT !.word = <<>>]
    ELSE g

\* Mutant of decode_flush: the word buffer is not cleared after the put.
decode_flush_no_clear(g) ==
    IF g.word # <<>> THEN put(g, g.word_s0, g.word_s1, 4, g.word) ELSE g

\* One pass of decode's loop for None (lines 244-251).
decode_flush(g) ==
    IF g.word # <<>>
    THEN [put(g, g.word_s0, g.word_s1, 4, g.word)
             EXCEPT !.word = <<>>, !.word_s0 = None, !.word_s1 = None]
    ELSE g

\* ----------------------------------------------------------- decode_morse
\* Mutant of is_letter_gap: only a word gap ends the letter.
is_letter_gap_word_only(sunits) == sunits >= 7

\* sunits >= 3: the space ends the letter (line 214).
is_letter_gap(sunits) == sunits >= 3

\* Mutant of flush_letter: the letter is yielded whether or not any mark
\* was accumulated.
flush_letter_unguarded(g) ==
    LET letter == resolve(g.sequence)
        g1 == Log(g, Ev("letter", g.morse_s0, g.morse_s1, 3, letter))
        g2 == decode_letter(g1, g.morse_s0, g.morse_s1, letter)
    IN  [g2 EXCEPT !.sequence = <<>>, !.morse_s0 = None, !.morse_s1 = None]

\* Mutant of flush_letter: s0 and s1 are not reset with the sequence.
flush_letter_keeps_span(g) ==
    IF g.sequence # <<>>
    THEN LET letter == resolve(g.sequence)
             g1 == Log(g, Ev("letter", g.morse_s0, g.morse_s1, 3, letter))
             g2 == decode_letter(g1, g.morse_s0, g.morse_s1, letter)
         IN  [g2 EXCEPT !.sequence = <<>>]
    ELSE g

\* Lines 220-224: resolve and yield the letter in progress, if any.
flush_letter(g) ==
    IF g.sequence # <<>>
    THEN LET letter == resolve(g.sequence)
             g1 == Log(g, Ev("letter", g.morse_s0, g.morse_s1, 3, letter))
             g2 == decode_letter(g1, g.morse_s0, g.morse_s1, letter)
         IN  [g2 EXCEPT !.sequence = <<>>, !.morse_s0 = None, !.morse_s1 = None]
    ELSE g

\* Mutant of morse_flush: the flush is passed on before the letter.
morse_flush_first(g) ==
    flush_letter(decode_flush(Log(g, Ev("wflush", None, None, None, <<>>))))

\* One pass of decode_morse's loop for None: flush the letter, then pass the
\* flush on (lines 217-227).
morse_flush(g) ==
    LET g1 == flush_letter(g)
    IN  decode_flush(Log(g1, Ev("wflush", None, None, None, <<>>)))

\* Mutant of morse_symbol: a letter gap is passed on as a flush of the word.
morse_symbol_gap_ends_word(g, t0, t1, sval, sunits) ==
    IF sval = 1
    THEN [g EXCEPT !.morse_s0 = IF @ = None THEN t0 ELSE @,
                   !.morse_s1 = t1,
                   !.sequence = Append(@, sunits)]
    ELSE IF is_letter_gap(sunits) THEN morse_flush(g) ELSE g

\* Mutant of morse_symbol: every mark sets the start of the letter.
morse_symbol_s0_overwritten(g, t0, t1, sval, sunits) ==
    IF sval = 1
    THEN [g EXCEPT !.morse_s0 = t0,
                   !.morse_s1 = t1,
                   !.sequence = Append(@, sunits)]
    ELSE IF is_letter_gap(sunits) THEN flush_letter(g) ELSE g

\* One pass of decode_morse's loop for a symbol (t0, t1, (sval, sunits)).
morse_symbol(g, t0, t1, sval, sunits) ==
    IF sval = 1
    THEN [g EXCEPT !.morse_s0 = IF @ = None THEN t0 ELSE @,
                   !.morse_s1 = t1,
                   !.sequence = Append(@, sunits)]
    ELSE IF is_letter_gap(sunits) THEN flush_letter(g) ELSE g

\* --------------------------------------------------------- decode_symbols
\* int(5 * self.samplerate * timeunit) (line 170).
skip_of(tu) == py_int(5 * samplerate * tu.num, tu.den)

\* round(dt / timeunit) for dt = ds / samplerate, timeunit > 0 (lines 174-176).
iunits_of(ds, tu) == py_round(ds * tu.den, samplerate * tu.num)

\* Mutant of adapt: the weight of one time unit is 0.2 instead of 0.02.
adapt_tenfold(tu, ds, iunits) ==
    Frac(5 * samplerate * tu.num + ds * tu.den - iunits * samplerate * tu.num,
         5 * samplerate * tu.den)

\* timeunit += (dt / iunits - timeunit) * 0.02 * iunits (lines 193-194),
\* which is timeunit + (dt - iunits * timeunit) / 50.
adapt(tu, ds, iunits) ==
    Frac(50 * samplerate * tu.num + ds * tu.den - iunits * samplerate * tu.num,
         50 * samplerate * tu.den)

\* The loop body of decode_symbols after wait() returned at curtime with
\* pin value v and self.matched = m (lines 172-194), as the new values of
\* [phase, timeunit, prevtime] and of the grouping stages.
loop_body(curtime, v, m) ==
    LET pval == 1 - v
        ds == curtime - prevtime
        same == [phase |-> "run", timeunit |-> timeunit, prevtime |-> prevtime]
    IN  IF timeunit.num = 0
        THEN \* line 175: float division by zero
             [c |-> [same EXCEPT !.phase = "failed"],
              g |-> Log(Groups, Ev("raise", prevtime, curtime, 175, <<>>))]
        ELSE
        LET iunits == iunits_of(ds, timeunit)
        IN  IF m[2]
            THEN \* lines 181-183
                 [c |-> same,
                  g |-> morse_flush(Log(Groups, Ev("flush", None, None, None, <<>>)))]
            ELSE
            LET g1 == put(Groups, prevtime, curtime, 0, <<ds>>)
                g2 == put(g1, prevtime, curtime, 1, <<ds, timeunit.num, timeunit.den>>)
                g3 == IF <<pval, iunits>> \in symbols
                      THEN morse_symbol(Log(g2, Ev("sym", prevtime, curtime, pval, <<iunits>>)),
                                        prevtime, curtime, pval, iunits)
                      ELSE g2
            IN  IF iunits = 0
                THEN \* line 193: dt / iunits
                     [c |-> [same EXCEPT !.phase = "failed", !.prevtime = curtime],
                      g |-> Log(g3, Ev("raise", prevtime, curtime, 193, <<>>))]
                ELSE [c |-> [same EXCEPT !.prevtime = curtime,
                                         !.timeunit = adapt(timeunit, ds, iunits)],
                      g |-> g3]

\* The state after wait() returned d samples on, with the pin at v.
Return(d, v, m) ==
    LET r == loop_body(samplenum + d, v, m)
    IN  /\ r.c.timeunit.den <= Pow50(MaxAdapt)
        /\ samplenum' = samplenum + d
        /\ val' = v
        /\ lastedge' = IF m[1] THEN samplenum + d ELSE lastedge
        /\ matched' = m
        /\ phase' = r.c.phase
        /\ timeunit' = r.c.timeunit
        /\ prevtime' = r.c.prevtime
        /\ sequence' = r.g.sequence
        /\ morse_s0' = r.g.morse_s0
        /\ morse_s1' = r.g.morse_s1
        /\ word' = r.g.word
        /\ word_s0' = r.g.word_s0
        /\ word_s1' = r.g.word_s1
        /\ trace' = r.g.trace
        /\ UNCHANGED <<option, tpl, out>>

\* ---------------------------------------------------------------- actions
InitPipeline(opts) ==
    /\ phase = "init"
    /\ option \in opts
    /\ timeunit = Frac(option, 1)
    /\ samplenum = 0
    /\ val = 0
    /\ lastedge = None
    /\ matched = <<FALSE, FALSE>>
    /\ prevtime = None
    /\ sequence = <<>>
    /\ morse_s0 = None
    /\ morse_s1 = None
    /\ word = <<>>
    /\ word_s0 = None
    /\ word_s1 = None
    /\ trace = <<>>

Init ==
    /\ InitPipeline(TimeunitOptions)
    /\ tpl = <<>>
    /\ out = <<>>

\* decode() up to the loop of decode_symbols: the three generators start
\* and self.wait({0: 'r'}) returns at the first rising edge (lines 162-167,
\* 198-199, 231-232).
FirstEdge(t) ==
    /\ phase = "init"
    /\ phase' = "run"
    /\ samplenum' = t
    /\ val' = 1
    /\ lastedge' = t
    /\ matched' = <<TRUE, FALSE>>
    /\ prevtime' = t
    /\ UNCHANGED <<option, timeunit, sequence, morse_s0, morse_s1,
                   word, word_s0, word_s1, trace, tpl, out>>

\* wait() returns for an edge d samples on, before the skip count is
\* reached: self.matched = (True, False).
Edge(d) ==
    /\ phase = "run"
    /\ d < skip_of(timeunit)
    /\ Return(d, 1 - val, <<TRUE, FALSE>>)

\* wait() returns because the skip count is reached; the channel may change
\* level on that very sample (e): self.matched = (e, True).  A skip count
\* below 1 is reached on the next sample.
Timeout(e) ==
    /\ phase = "run"
    /\ LET n == skip_of(timeunit)
       IN  Return(IF n < 1 THEN 1 ELSE n, IF e THEN 1 - val ELSE val, <<e, TRUE>>)

\* Any stream of edges: the next edge falls on any later sample up to MaxTime,
\* or none does before the skip count is reached.
Next ==
    \/ \E t \in 1..MaxFirst : FirstEdge(t)
    \/ \E d \in 1..MaxTime : samplenum + d <= MaxTime /\ Edge(d)
    \/ \E e \in BOOLEAN : samplenum + skip_of(timeunit) <= MaxTime /\ Timeout(e)

Spec == Init /\ [][Next]_vars

\* ------------------------------------------------- the "hello" stream
\* `.... . .-.. .-.. ---`: the letters as dit/dah tuples.
HelloCode == <<<<1, 1, 1, 1>>, <<1>>, <<1, 3, 1, 1>>, <<1, 3, 1, 1>>, <<3, 3, 3>>>>

\* The intervals of one letter in time units: its marks, one unit apart.
RECURSIVE LetterIntervals(_)
LetterIntervals(code) ==
    IF Len(code) = 1 THEN code
    ELSE <<Head(code), 1>> \o LetterIntervals(Tail(code))

\* The intervals between the edges of a stream of letters, three units
\* between letters, up to the last falling edge.
RECURSIVE StreamIntervals(_)
StreamIntervals(codes) ==
    IF Len(codes) = 1 THEN LetterIntervals(Head(codes))
    ELSE LetterIntervals(Head(codes)) \o <<3>> \o StreamIntervals(Tail(codes))

HelloIntervals == StreamIntervals(HelloCode)

\* Time units (in samples) the "hello" stream is keyed at: 1..MaxHelloUnit.
MaxHelloUnit == 4

IsPut(e, cls) == e.ev = "put" /\ e.cls = cls
IsRaw(e) == IsPut(e, 0)
IsUnit(e) == IsPut(e, 1)
IsLetter(e) == IsPut(e, 3)
IsWord(e) == IsPut(e, 4)
IsText(e) == IsLetter(e) \/ IsWord(e)
IsAnn(e) == e.ev = "put"

\* Edges processed by the loop so far (each puts one raw annotation).
EdgesDone == Len(SelectSeq(trace, IsRaw))

\* Timeouts taken since the last processed edge.
RECURSIVE TrailingFlushes(_)
TrailingFlushes(t) ==
    IF t = <<>> \/ IsRaw(t[Len(t)]) \/ t[Len(t)].ev = "sym" THEN 0
    ELSE (IF t[Len(t)].ev = "flush" THEN 1 ELSE 0) + TrailingFlushes(SubSeq(t, 1, Len(t) - 1))

InitHello ==
    /\ InitPipeline(1..MaxHelloUnit)
    /\ tpl = <<>>
    /\ out = <<>>

\* The next edge of the stream, at exactly its number of time units.
HelloEdge ==
    /\ EdgesDone < Len(HelloIntervals)
    /\ Edge(HelloIntervals[EdgesDone + 1] * option)

\* The trailing silence: no edge after the last mark.
HelloSilence ==
    /\ EdgesDone = Len(HelloIntervals)
    /\ TrailingFlushes(trace) < MaxTrail
    /\ Timeout(FALSE)

NextHello ==
    \/ \E t \in 1..MaxFirst : FirstEdge(t)
    \/ HelloEdge
    \/ HelloSilence

SpecHello == InitHello /\ [][NextHello]_vars

\* ------------------------------------------- resolution on its own
\* All tuples over {1, 3} of length 0..n.
TuplesUpTo(n) == UNION {[1..k -> {1, 3}] : k \in 0..n}

InitAlpha ==
    /\ InitPipeline({1})
    /\ tpl \in TuplesUpTo(MaxCodeLen)
    /\ out = <<>>

\* The letter grouper's resolution of tpl (line 222), and the tuple read
\* back from its dot/dash rendering (lines 26-30).
Resolve ==
    /\ out = <<>>
    /\ out' = <<resolve(tpl), decode_ditdah(encode_ditdah(tpl))>>
    /\ UNCHANGED <<pipeline, tpl>>

NextAlpha == Resolve

SpecAlpha == InitAlpha /\ [][NextAlpha]_vars

\* ---------------------------------------------------------------- claims
\* The letter and word annotations put so far, in order, as <<class, text>>.
TextAnns ==
    LET lw == SelectSeq(trace, IsText)
    IN  [i \in 1..Len(lw) |-> <<lw[i].cls, lw[i].txt>>]

IsPrefix(a, b) == Len(a) <= Len(b) /\ a = SubSeq(b, 1, Len(a))

HelloExpected ==
    <<<<3, <<"h">>>>, <<3, <<"e">>>>, <<3, <<"l">>>>, <<3, <<"l">>>>, <<3, <<"o">>>>,
      <<4, <<"h", "e", "l", "l", "o">>>>>>

\* The whole stream has been keyed and at least 7 time units of silence
\* have followed its last mark.
HelloSilent ==
    /\ EdgesDone = Len(HelloIntervals)
    /\ samplenum - prevtime >= 7 * option

\* C1: for the stream `.... . .-.. .-.. ---` keyed at exact 1:3 marks and
\* 1:3 gaps and followed by at least 7 units of silence, the letter
\* annotations are h, e, l, l, o in that order, followed by exactly one word
\* annotation "hello"; no other letter or word annotation is put at any
\* point of the stream.
C1_HelloDecoded ==
    /\ IsPrefix(TextAnns, HelloExpected)
    /\ HelloSilent => TextAnns = HelloExpected

C1_Witness == HelloSilent /\ phase = "run" /\ Len(TextAnns) = 6

\* What one step appended to trace, and the annotations among it.
NewEvents == SubSeq(trace', Len(trace) + 1, Len(trace'))
NewAnns == SelectSeq(NewEvents, IsAnn)

\* A step in which wait() returned with the skip condition matched and the
\* loop went on.
TimeoutStep ==
    /\ phase = "run"
    /\ phase' = "run"
    /\ samplenum' # samplenum
    /\ matched'[2]

\* Exactly one interval has been processed, a mark of 3 units, and at least
\* one timeout followed it.
IsolatedDah ==
    /\ EdgesDone = 1
    /\ SelectSeq(trace, LAMBDA e : e.ev = "sym") # <<>>
    /\ LET s == SelectSeq(trace, LAMBDA e : e.ev = "sym")[1]
       IN  s.cls = 1 /\ s.txt = <<3>>
    /\ TrailingFlushes(trace) >= 1

\* C2: a timeout taken while marks are pending puts the pending letter
\* and then the word that ends with it, and nothing else; a timeout taken
\* with both buffers empty puts nothing; an isolated 3-unit mark followed by
\* any number of timeouts has produced the letter "t" once and the word "t"
\* once.
C2_TimeoutFlushesOnce ==
    /\ [][TimeoutStep =>
            /\ sequence # <<>> =>
                  /\ Len(NewAnns) = 2
                  /\ IsLetter(NewAnns[1])
                  /\ NewAnns[1].txt = resolve(sequence)
                  /\ NewAnns[1].ss = morse_s0 /\ NewAnns[1].es = morse_s1
                  /\ IsWord(NewAnns[2])
                  /\ NewAnns[2].txt = word \o NewAnns[1].txt
            /\ (sequence = <<>> /\ word = <<>>) => NewAnns = <<>>]_vars
    /\ [](IsolatedDah => TextAnns = <<<<3, <<"t">>>>, <<4, <<"t">>>>>>)

C2_Witness ==
    /\ IsolatedDah
    /\ TrailingFlushes(trace) >= 2
    /\ TextAnns = <<<<3, <<"t">>>>, <<4, <<"t">>>>>>

HasSym(t, lvl, n) == \E i \in 1..Len(t) : t[i].ev = "sym" /\ t[i].cls = lvl /\ t[i].txt = <<n>>
HasWord(t) == \E i \in 1..Len(t) : IsWord(t[i])

\* C3: a space classified as 3 units ends the letter in progress and appends
\* it to the word in progress without closing the word (no word annotation
\* in that step); a word annotation is put, and the word buffer is emptied,
\* only in a step that handles a flush marker.
C3_LetterGapKeepsWord ==
    /\ [][HasSym(NewEvents, 0, 3) =>
            /\ ~HasWord(NewEvents)
            /\ word' = IF sequence # <<>> THEN word \o resolve(sequence) ELSE word]_vars
    /\ [][(HasWord(NewEvents) \/ ~IsPrefix(word, word')) => TimeoutStep]_vars

\* Two letters, a 3-unit space between them, then one word made of both.
C3_Witness ==
    /\ Len(TextAnns) = 3
    /\ TextAnns[1][1] = 3 /\ TextAnns[2][1] = 3 /\ TextAnns[3][1] = 4
    /\ TextAnns[3][2] = TextAnns[1][2] \o TextAnns[2][2]
    /\ HasSym(trace, 0, 3)

\* The annotations put so far, in the order of the put calls.
Anns == SelectSeq(trace, IsAnn)

\* Level of an annotation class: raw and unit 0, letter 1, word 2.
Level(e) == IF e.cls = 3 THEN 1 ELSE IF e.cls = 4 THEN 2 ELSE 0

\* C4 as stated: no annotation is put after an annotation whose start sample
\* is greater than its own.
C4_EmittedInStartOrder ==
    LET a == Anns
    IN  \A j \in 1..Len(a) : \A i \in 1..(j - 1) : a[i].ss <= a[j].ss

\* C4 as amended: no annotation is put after an annotation of the same level
\* whose start sample is greater than its own, and none after an annotation
\* of a higher level that ends after its own start (levels: raw/unit, letter,
\* word).  Letter and word annotations are put after lower-level annotations
\* with greater start samples.
C4_EmittedInStartOrderPerLevel ==
    LET a == Anns
    IN  \A j \in 1..Len(a) : \A i \in 1..(j - 1) :
            /\ Level(a[i]) = Level(a[j]) => a[i].ss <= a[j].ss
            /\ Level(a[i]) > Level(a[j]) => a[i].es <= a[j].ss

\* A raw annotation was put before a letter that starts earlier, and a raw
\* annotation and a letter were put after a word.
C4_Witness ==
    LET a == Anns
    IN  /\ \E j \in 1..Len(a) : \E i \in 1..(j - 1) :
               IsRaw(a[i]) /\ IsLetter(a[j]) /\ a[i].ss > a[j].ss
        /\ \E k \in 1..Len(a) : \E j \in 1..(k - 1) : \E i \in 1..(j - 1) :
               IsWord(a[i]) /\ IsRaw(a[j]) /\ IsLetter(a[k])

\* C5: for every interval between two edges the rounded unit count is at
\* least 1, and processing an edge never fails on dt / iunits.
C5_IunitsAtLeastOne ==
    \A i \in 1..Len(trace) :
        /\ IsUnit(trace[i]) =>
              iunits_of(trace[i].txt[1],
                        [num |-> trace[i].txt[2], den |-> trace[i].txt[3]]) >= 1
        /\ ~(trace[i].ev = "raise" /\ trace[i].cls = 193)

\* C6: a configured time unit that is not positive is rejected before the
\* first edge: with it the decoder never fails in the stream and never
\* processes an interval or a timeout.
C6_NonPositiveRejectedAtStart ==
    option <= 0 => (phase # "failed" /\ trace = <<>>)

\* C7: when the decoder is back in wait() after a flush marker, the dit/dah
\* sequence, the word buffer and both pairs of timestamps are empty.
C7_FlushDrainsBuffers ==
    (phase = "run" /\ matched[2]) =>
        /\ sequence = <<>> /\ morse_s0 = None /\ morse_s1 = None
        /\ word = <<>> /\ word_s0 = None /\ word_s1 = None

\* The flush marker just handled drained a letter and a word.
C7_Witness ==
    /\ phase = "run" /\ matched[2]
    /\ Len(trace) >= 2
    /\ IsWord(trace[Len(trace)])
    /\ \E i \in 1..Len(trace) : trace[i].ev = "letter"

\* A step in which the letter grouper received a flush trigger.
TriggerStep ==
    TimeoutStep \/ HasSym(NewEvents, 0, 3) \/ HasSym(NewEvents, 0, 7)

\* C8: no letter or word annotation has empty text; a flush trigger that
\* finds the dit/dah sequence empty yields no letter, and a flush marker that
\* finds both buffers empty yields no word annotation.
C8_NoEmptyEmission ==
    /\ [](\A i \in 1..Len(trace) : IsText(trace[i]) => trace[i].txt # <<>>)
    /\ [][(TriggerStep /\ sequence = <<>>) =>
            \A i \in 1..Len(NewEvents) :
                NewEvents[i].ev # "letter" /\ ~IsLetter(NewEvents[i])]_vars
    /\ [][(TimeoutStep /\ sequence = <<>> /\ word = <<>>) => ~HasWord(NewEvents)]_vars

\* A flush marker and a space of 3 or 7 units each arrived while the
\* sequence was empty.
C8_Witness ==
    /\ \E i \in 1..(Len(trace) - 1) : trace[i].ev = "flush" /\ trace[i + 1].ev = "wflush"
    /\ \E i \in 1..Len(trace) :
           /\ trace[i].ev = "sym" /\ trace[i].cls = 0 /\ trace[i].txt[1] >= 3
           /\ (i = Len(trace) \/ trace[i + 1].ev # "letter")

\* C9: every listed code resolves to the character listed with it, the
\* listed codes are pairwise distinct as tuples, and no two entries list the
\* same character.
C9_AlphabetInjective ==
    /\ out # <<>> =>
          \A i \in DOMAIN alphabet_literal :
              decode_ditdah(alphabet_literal[i][1]) = tpl => out[1] = alphabet_literal[i][2]
    /\ \A i, j \in DOMAIN alphabet_literal :
          i # j =>
              /\ decode_ditdah(alphabet_literal[i][1]) # decode_ditdah(alphabet_literal[j][1])
              /\ alphabet_literal[i][2] # alphabet_literal[j][2]

\* The longest listed code, eight dots, has been resolved.
C9_Witness ==
    /\ tpl = <<1, 1, 1, 1, 1, 1, 1, 1>>
    /\ out # <<>>
    /\ out[1] = <<"E", "R", "R", "O", "R">>

\* C10: a tuple over {1, 3} that is not listed resolves to its dots and
\* dashes (1 -> ".", 3 -> "-"), and for every tuple over {1, 3}
\* decode_ditdah(encode_ditdah(t)) = t.
C10_RoundTrip ==
    out # <<>> =>
        /\ (\A i \in DOMAIN alphabet_literal : decode_ditdah(alphabet_literal[i][1]) # tpl) =>
              /\ Len(out[1]) = Len(tpl)
              /\ \A k \in 1..Len(tpl) : out[1][k] = IF tpl[k] = 1 THEN "." ELSE "-"
        /\ out[2] = tpl

\* Four dashes, which the table does not list, have been resolved.
C10_Witness ==
    /\ tpl = <<3, 3, 3, 3>>
    /\ out # <<>>
    /\ out[1] = <<"-", "-", "-", "-">>

\* Level the channel had over the samples that led to the last return of
\* wait(): the opposite of val when that return saw an edge.
LevelBefore == IF matched[1] THEN 1 - val ELSE val

\* The last return of wait() was handled as a timeout: a flush marker was
\* yielded at samplenum.
FlushYielded == phase = "run" /\ matched[2] /\ timeunit.num > 0

\* C11: whenever the classifier has yielded a flush marker, the channel was
\* low up to that sample and had been low, without an edge, for at least
\* 5 time units; no flush marker is yielded during a mark.
C11_FlushOnlyForSilence ==
    FlushYielded =>
        /\ LevelBefore = 0
        /\ (samplenum - prevtime) * timeunit.den >= 5 * samplerate * timeunit.num

\* C12: every level transition after the first rising edge that the loop
\* handles without failing puts one raw and one unit annotation, both from
\* the previous edge to this edge, and moves the reference point to this
\* edge, also when the edge falls on the sample at which the skip count is
\* reached.
C12_EveryEdgeAnnotated ==
    [][(phase = "run" /\ phase' = "run" /\ matched'[1]) =>
          /\ Len(SelectSeq(NewEvents, IsRaw)) = 1
          /\ Len(SelectSeq(NewEvents, IsUnit)) = 1
          /\ \A i \in 1..Len(NewEvents) :
                (IsRaw(NewEvents[i]) \/ IsUnit(NewEvents[i])) =>
                    (NewEvents[i].ss = lastedge /\ NewEvents[i].es = lastedge')
          /\ prevtime' = lastedge']_vars

\* A step in which wait() returned for an edge alone and the interval ended
\* by it was measured in time units.
ProcessedEdge ==
    /\ phase = "run"
    /\ matched' = <<TRUE, FALSE>>
    /\ timeunit.num > 0

\* The symbols one step forwarded to the letter grouper.
NewSyms == SelectSeq(NewEvents, LAMBDA e : e.ev = "sym")

\* The state of the letter grouper and of the word grouper.
grouping == <<sequence, morse_s0, morse_s1, word, word_s0, word_s1>>

EdgeAfterTimeout ==
    /\ phase = "run"
    /\ matched[2]
    /\ phase' = "run"
    /\ matched' = <<TRUE, FALSE>>

\* C14: a timeout yields one flush marker and changes nothing else in the
\* classifier: prevtime and timeunit keep their values and no raw
\* annotation, unit annotation or symbol is produced; the interval ended by
\* the first edge after timeouts is measured from the channel's last change
\* of level.
C14_TimeoutFrame ==
    /\ [][TimeoutStep =>
            /\ prevtime' = prevtime
            /\ timeunit' = timeunit
            /\ NewEvents[1] = Ev("flush", None, None, None, <<>>)
            /\ Len(SelectSeq(NewEvents, LAMBDA e : e.ev = "flush")) = 1
            /\ NewSyms = <<>>
            /\ SelectSeq(NewEvents, IsRaw) = <<>>
            /\ SelectSeq(NewEvents, IsUnit) = <<>>]_vars
    /\ [][EdgeAfterTimeout =>
            /\ SelectSeq(NewEvents, IsRaw) # <<>>
            /\ SelectSeq(NewEvents, IsRaw)[1].ss = lastedge
            /\ SelectSeq(NewEvents, IsRaw)[1].es = lastedge']_vars

IsFlushIn(e) == e.ev = "flush"
IsFlushOut(e) == e.ev = "wflush"
IsLetterOut(e) == e.ev = "letter"

\* C15: the letter grouper passes on one flush marker for each flush marker
\* it receives, in the same step and after the letter that flush resolves,
\* if any; a step that forwards a space of 3 or 7 units resolves the letter
\* in progress and passes no flush marker on.
C15_FlushPassedThrough ==
    /\ [](Len(SelectSeq(trace, IsFlushOut)) = Len(SelectSeq(trace, IsFlushIn)))
    /\ [][LET ne == NewEvents
              nin == Len(SelectSeq(ne, IsFlushIn))
              nlet == Len(SelectSeq(ne, IsLetterOut))
          IN  /\ nin <= 1
              /\ Len(SelectSeq(ne, IsFlushOut)) = nin
              /\ nlet = (IF sequence # <<>> /\ \E i \in 1..Len(ne) :
                               \/ IsFlushIn(ne[i])
                               \/ ne[i].ev = "sym" /\ ne[i].cls = 0 /\ ne[i].txt[1] \in {3, 7}
                         THEN 1 ELSE 0)
              /\ nin = 1 =>
                    /\ IsFlushIn(ne[1])
                    /\ IF sequence # <<>>
                       THEN /\ ne[2] = Ev("letter", morse_s0, morse_s1, 3, resolve(sequence))
                            /\ IsLetter(ne[3])
                            /\ IsFlushOut(ne[4])
                       ELSE IsFlushOut(ne[2])
              /\ (HasSym(ne, 0, 3) \/ HasSym(ne, 0, 7)) => nin = 0]_vars

\* A letter was resolved by a space of 3 units with no flush passed on, and
\* a later letter by a flush marker, passed on after it.
C15_Witness ==
    /\ HasSym(trace, 0, 3)
    /\ Len(SelectSeq(trace, IsLetterOut)) >= 2
    /\ \E i \in 1..Len(trace) :
          /\ i + 3 <= Len(trace)
          /\ IsFlushIn(trace[i])
          /\ IsLetterOut(trace[i + 1])
          /\ IsFlushOut(trace[i + 3])
          /\ \E j \in 1..(i - 1) :
                /\ IsLetterOut(trace[j])
                /\ ~IsFlushIn(trace[j - 1])
                /\ \A k \in j..i : ~IsFlushOut(trace[k])

\* What makes the letter grouper resolve the letter in progress: a flush
\* marker or a forwarded space of 3 units or more.
IsTrigger(e) == IsFlushIn(e) \/ (e.ev = "sym" /\ e.cls = 0 /\ e.txt[1] >= 3)
IsMark(e) == e.ev = "sym" /\ e.cls = 1

\* Index in t of the last trigger before index k, 0 if there is none.
PrevTrigger(t, k) ==
    LET ps == {p \in 1..(k - 1) : IsTrigger(t[p])}
    IN  IF ps = {} THEN 0 ELSE CHOOSE p \in ps : \A q \in ps : q <= p

\* The marks forwarded after the last trigger before index k and before k.
MarksBefore(t, k) == SelectSeq(SubSeq(t, PrevTrigger(t, k) + 1, k - 1), IsMark)

Units(ms) == [i \in 1..Len(ms) |-> ms[i].txt[1]]

\* C16: every letter is yielded right after a trigger (flush marker or space
\* of 3 units or more) and is the resolution of the unit counts, in order,
\* of exactly the marks forwarded between the previous trigger and that
\* one, spanning from the first of them to the last; every trigger that has
\* marks before it yields a letter, so each mark goes into one letter
\* only; the sequence held is that of the marks since the last trigger; a
\* forwarded space of 1 unit changes nothing.
C16_LetterFromMarksSinceTrigger ==
    /\ [](LET t == trace
              n == Len(trace)
          IN  /\ \A k \in 1..n : IsLetterOut(t[k]) =>
                    /\ k > 1
                    /\ IsTrigger(t[k - 1])
                    /\ LET ms == MarksBefore(t, k - 1)
                       IN  /\ ms # <<>>
                           /\ t[k].txt = resolve(Units(ms))
                           /\ t[k].ss = ms[1].ss
                           /\ t[k].es = ms[Len(ms)].es
              /\ \A k \in 1..n : (IsTrigger(t[k]) /\ MarksBefore(t, k) # <<>>) =>
                    (k < n /\ IsLetterOut(t[k + 1]))
              /\ sequence = Units(MarksBefore(t, n + 1)))
    /\ [][HasSym(NewEvents, 0, 1) => grouping' = grouping]_vars

\* A letter of two marks with a 1-unit space between them has been yielded,
\* and another letter after it.
C16_Witness ==
    \E k \in 1..Len(trace) :
        /\ IsLetterOut(trace[k])
        /\ Len(MarksBefore(trace, k - 1)) = 2
        /\ \E i \in PrevTrigger(trace, k - 1)..k :
              i >= 1 /\ trace[i].ev = "sym" /\ trace[i].cls = 0 /\ trace[i].txt = <<1>>
        /\ \E j \in (k + 1)..Len(trace) : IsLetterOut(trace[j])

\* Concatenation of the texts of a sequence of annotations.
RECURSIVE ConcatTxt(_)
ConcatTxt(ls) == IF ls = <<>> THEN <<>> ELSE Head(ls).txt \o ConcatTxt(Tail(ls))

\* Index in t of the last word annotation before index k, 0 if none.
PrevWord(t, k) ==
    LET ps == {p \in 1..(k - 1) : IsWord(t[p])}
    IN  IF ps = {} THEN 0 ELSE CHOOSE p \in ps : \A q \in ps : q <= p

\* The letter annotations put after the last word annotation before index k
\* and before k.
LettersBefore(t, k) == SelectSeq(SubSeq(t, PrevWord(t, k) + 1, k - 1), IsLetter)

\* C17: a letter received by decode() is annotated at once, with its span
\* and text, and letter annotations are put for nothing else; every word
\* annotation's text is the concatenation, in order, of the letter
\* annotations put since the previous word annotation (at least one), all
\* put before it, and its span runs from the start of the first of them to
\* the end of the last; the word held is the concatenation of the letters
\* annotated since the last word annotation, so no letter is in two words.
C17_WordFromLettersSinceWord ==
    LET t == trace
        n == Len(trace)
    IN  /\ \A k \in 1..n : IsLetterOut(t[k]) =>
              (k < n /\ t[k + 1] = Ev("put", t[k].ss, t[k].es, 3, t[k].txt))
        /\ \A k \in 1..n : IsLetter(t[k]) => (k > 1 /\ IsLetterOut(t[k - 1]))
        /\ \A k \in 1..n : IsWord(t[k]) =>
              LET ls == LettersBefore(t, k)
              IN  /\ ls # <<>>
                  /\ t[k].txt = ConcatTxt(ls)
                  /\ t[k].ss = ls[1].ss
                  /\ t[k].es = ls[Len(ls)].es
        /\ word = ConcatTxt(LettersBefore(t, n + 1))
        /\ word # <<>> =>
              /\ word_s0 = LettersBefore(t, n + 1)[1].ss
              /\ word_s1 = LettersBefore(t, n + 1)[Len(LettersBefore(t, n + 1))].es

\* A word of two letters has been annotated and a letter of the next word.
C17_Witness ==
    \E k \in 1..Len(trace) :
        /\ IsWord(trace[k])
        /\ Len(LettersBefore(trace, k)) = 2
        /\ word # <<>>

\* C18: from a positive timeunit option the time unit stays strictly
\* positive; every processed interval of iunits >= 1 changes it by at most
\* 1% of its value before the update, and an interval that is exactly
\* iunits time units long leaves it unchanged.
C18_TimeunitStaysPositive ==
    /\ [](option > 0 => (timeunit.num > 0 /\ timeunit.den > 0))
    /\ [][(ProcessedEdge /\ iunits_of(samplenum' - prevtime, timeunit) >= 1) =>
            LET ds == samplenum' - prevtime
                iu == iunits_of(ds, timeunit)
                k  == (50 * timeunit.den) \div timeunit'.den
            IN  /\ (50 * timeunit.den) % timeunit'.den = 0
                /\ timeunit'.num > 0
                /\ 2 * Abs(timeunit'.num * k - 50 * timeunit.num) <= timeunit.num
                /\ (ds * timeunit.den = iu * samplerate * timeunit.num) =>
                      timeunit' = timeunit]_vars

\* An interval of exactly 2 time units has left the time unit at the
\* option, and the next one, no exact multiple, has adapted it.
C18_Witness ==
    /\ phase = "run"
    /\ option = 2
    /\ timeunit.den = 50
    /\ LET r == SelectSeq(trace, IsUnit)
       IN  /\ Len(r) = 2
           /\ r[1].txt = <<4, 2, 1>>
           /\ r[2].txt[2] = 2 /\ r[2].txt[3] = 1

\* C19: when a rising edge ends a silence that followed a mark and whose
\* duration rounds to 3 time units or more, the letter in progress is ended
\* by then: the sequence is empty when the next mark starts, so the marks
\* on either side of the silence are never in one sequence.
C19_LongSilenceEndsLetter ==
    [][(/\ ProcessedEdge
        /\ val' = 1
        /\ prevtime = lastedge
        /\ iunits_of(samplenum' - prevtime, timeunit) >= 3) =>
            sequence' = <<>>]_vars

\* Each annotation of a starts no later than it ends and no earlier than
\* the one before it ends.
Ordered(a) ==
    \A i \in 1..Len(a) :
        /\ a[i].ss <= a[i].es
        /\ i > 1 => a[i - 1].es <= a[i].ss

\* C20: within each class of annotations (raw, unit, letter, word) taken on
\* its own, every annotation has start <= end and starts at or after the
\* end of the annotation of that class put before it.
C20_OrderedPerClass ==
    /\ Ordered(SelectSeq(trace, IsRaw))
    /\ Ordered(SelectSeq(trace, IsUnit))
    /\ Ordered(SelectSeq(trace, IsLetter))
    /\ Ordered(SelectSeq(trace, IsWord))

\* Two words have been annotated, and more raw intervals than letters.
C20_Witness ==
    /\ Len(SelectSeq(trace, IsWord)) >= 2
    /\ Len(SelectSeq(trace, IsLetter)) >= 2
    /\ Len(SelectSeq(trace, IsRaw)) >= 3
    /\ Len(SelectSeq(trace, IsUnit)) >= 3

====
